---- MODULE Spec2Model ----
(***************************************************************************)
(* FingerReach (pybullet_fingers/gym_wrapper/envs/finger_reach.py): the    *)
(* gym environment's constructor, reset and step, with the action          *)
(* smoothing ramp and the control-rate loop.  Python floats are IEEE-754   *)
(* binary64 values; they are modelled bit-exactly (round to nearest, ties  *)
(* to even) with the significand split into two words, because TLC         *)
(* integers are 32 bits wide.  Infinities, NaN and subnormals do not occur *)
(* for the magnitudes used here and are not modelled; -0.0 is modelled as  *)
(* 0.0, which Python's == does not tell apart.                             *)
(***************************************************************************)
EXTENDS Integers, Sequences, FiniteSets, TLC

-----------------------------------------------------------------------------
(* Python float: the value (-1)^neg * (hi * 2^28 + lo) * 2^e, with the     *)
(* 53-bit significand hi * 2^28 + lo in 2^52 .. 2^53 - 1 (hi has 25 bits,  *)
(* lo has 28), or zero.  The form is unique, so = is the float's ==.       *)
(* Results are rounded from a 56-bit working significand (whi, wlo): the   *)
(* 53 bits followed by a guard and a round bit and a sticky bit that is    *)
(* set when any lower bit of the exact result is.                          *)

Zero == [neg |-> FALSE, hi |-> 0, lo |-> 0, e |-> 0]

IsZero(x) == x.hi = 0

RECURSIVE BitLength(_)
BitLength(n) == IF n = 0 THEN 0
                ELSE IF n >= 2^14 THEN 14 + BitLength(n \div 2^14)
                ELSE IF n >= 2^4 THEN 4 + BitLength(n \div 2^4)
                ELSE 1 + BitLength(n \div 2)

\* set the sticky bit
Jam(lo, sticky) == IF sticky /\ lo % 2 = 0 THEN lo + 1 ELSE lo

\* <<hi, lo>> shifted right by d >= 0 bits, the bits shifted out kept as sticky
ShrJam(hi, lo, d) ==
    IF d = 0 THEN <<hi, lo>>
    ELSE IF d < 28
    THEN <<hi \div 2^d,
           Jam((lo \div 2^d) + (hi % 2^d) * 2^(28 - d), lo % 2^d # 0)>>
    ELSE IF d < 56
    THEN <<0, Jam(hi \div 2^(d - 28), lo # 0 \/ hi % 2^(d - 28) # 0)>>
    ELSE <<0, Jam(0, hi # 0 \/ lo # 0)>>

\* <<hi, lo>> shifted left by n >= 0 bits, for a value below 2^(56 - n)
Shl(hi, lo, n) ==
    IF n >= 28 THEN <<lo * 2^(n - 28), 0>>
    ELSE <<hi * 2^n + lo \div 2^(28 - n), (lo % 2^(28 - n)) * 2^n>>

\* the float nearest to (-1)^neg * (whi * 2^28 + wlo) * 2^e, ties to even,
\* for a working significand in 2^55 .. 2^56 - 1
Pack(neg, whi, wlo, e) ==
    LET grs == wlo % 8
        lo0 == wlo \div 8 + (whi % 8) * 2^25
        hi0 == whi \div 8
        up  == grs > 4 \/ (grs = 4 /\ lo0 % 2 = 1)
        lo1 == IF up THEN lo0 + 1 ELSE lo0
        hi1 == IF lo1 = 2^28 THEN hi0 + 1 ELSE hi0
    IN  IF hi1 = 2^25
        THEN [neg |-> neg, hi |-> 2^24, lo |-> 0, e |-> e + 4]
        ELSE [neg |-> neg, hi |-> hi1, lo |-> lo1 % 2^28, e |-> e + 3]

\* the same for any nonzero working significand below 2^56, known exactly
Normal(neg, whi, wlo, e) ==
    LET n == IF whi # 0 THEN 28 - BitLength(whi) ELSE 56 - BitLength(wlo)
        w == Shl(whi, wlo, n)
    IN  Pack(neg, w[1], w[2], e - n)

FromInt(n) == IF n = 0 THEN Zero
              ELSE Normal(n < 0, 0, IF n < 0 THEN -n ELSE n, 0)

FNeg(x) == IF IsZero(x) THEN x ELSE [x EXCEPT !.neg = ~x.neg]

FAbs(x) == [x EXCEPT !.neg = FALSE]

\* the working significand of the significand of x
Whi(x) == x.hi * 8 + x.lo \div 2^25

Wlo(x) == (x.lo % 2^25) * 8

\* x + y for nonzero x and y where x has the larger magnitude
AddOrdered(x, y) ==
    LET b   == ShrJam(Whi(y), Wlo(y), x.e - y.e)
        sum == Wlo(x) + b[2]
        shi == Whi(x) + b[1] + sum \div 2^28
        slo == sum % 2^28
        dif == Wlo(x) - b[2]
        dhi == Whi(x) - b[1] - (IF dif < 0 THEN 1 ELSE 0)
        dlo == IF dif < 0 THEN dif + 2^28 ELSE dif
    IN  IF x.neg = y.neg
        THEN IF shi >= 2^28
             THEN Pack(x.neg, shi \div 2,
                       Jam(slo \div 2 + (shi % 2) * 2^27, slo % 2 = 1),
                       x.e - 2)
             ELSE Pack(x.neg, shi, slo, x.e - 3)
        ELSE IF dhi = 0 /\ dlo = 0 THEN Zero
        ELSE Normal(x.neg, dhi, dlo, x.e - 3)

\* |x| >= |y| for nonzero x and y
MagnitudeGe(x, y) ==
    IF x.e # y.e THEN x.e > y.e
    ELSE IF x.hi # y.hi THEN x.hi > y.hi
    ELSE x.lo >= y.lo

FAdd(x, y) ==
    IF IsZero(x) THEN y
    ELSE IF IsZero(y) THEN x
    ELSE IF MagnitudeGe(x, y) THEN AddOrdered(x, y)
    ELSE AddOrdered(y, x)

FSub(x, y) == FAdd(x, FNeg(y))

FMul(x, y) ==
    IF IsZero(x) \/ IsZero(y) THEN Zero
    ELSE LET a0 == x.lo % 2^14
             a1 == x.lo \div 2^14
             a2 == x.hi % 2^14
             a3 == x.hi \div 2^14
             b0 == y.lo % 2^14
             b1 == y.lo \div 2^14
             b2 == y.hi % 2^14
             b3 == y.hi \div 2^14
             s0 == a0 * b0
             s1 == a0 * b1 + a1 * b0 + s0 \div 2^14
             s2 == a0 * b2 + a1 * b1 + a2 * b0 + s1 \div 2^14
             s3 == a0 * b3 + a1 * b2 + a2 * b1 + a3 * b0 + s2 \div 2^14
             s4 == a1 * b3 + a2 * b2 + a3 * b1 + s3 \div 2^14
             s5 == a2 * b3 + a3 * b2 + s4 \div 2^14
             s6 == a3 * b3 + s5 \div 2^14
             p0 == (s0 % 2^14) + (s1 % 2^14) * 2^14
             p1 == (s2 % 2^14) + (s3 % 2^14) * 2^14
             p2 == (s4 % 2^14) + (s5 % 2^14) * 2^14
             p3 == s6
             r  == IF p3 >= 2^21 THEN 22 ELSE 21
         IN  Pack(x.neg # y.neg,
                  p2 \div 2^r + p3 * 2^(28 - r),
                  Jam(p1 \div 2^r + (p2 % 2^r) * 2^(28 - r),
                      p0 # 0 \/ p1 % 2^r # 0),
                  x.e + y.e + 28 + r)

\* n more quotient bits of the remainder st[2] * 2^28 + st[3] by <<dhi, dlo>>;
\* st[1] collects the bits
RECURSIVE DivBits(_, _, _, _)
DivBits(st, dhi, dlo, n) ==
    IF n = 0 THEN st
    ELSE LET ge   == st[2] > dhi \/ (st[2] = dhi /\ st[3] >= dlo)
             dif  == st[3] - dlo
             rhi  == IF ge THEN st[2] - dhi - (IF dif < 0 THEN 1 ELSE 0) ELSE st[2]
             rlo  == IF ge THEN (IF dif < 0 THEN dif + 2^28 ELSE dif) ELSE st[3]
             next == <<2 * st[1] + (IF ge THEN 1 ELSE 0),
                       2 * rhi + rlo \div 2^27,
                       (rlo % 2^27) * 2>>
         IN  IF next[1] >= 0 THEN DivBits(next, dhi, dlo, n - 1) ELSE next

\* x / y for y # 0 (Python raises ZeroDivisionError instead of dividing by zero)
FDiv(x, y) ==
    IF IsZero(x) THEN Zero
    ELSE IF y.hi = 2^24 /\ y.lo = 0
    THEN [neg |-> x.neg # y.neg, hi |-> x.hi, lo |-> x.lo, e |-> x.e - y.e - 52]
    ELSE LET ge == x.hi > y.hi \/ (x.hi = y.hi /\ x.lo >= y.lo)
             r0 == IF ge THEN <<x.hi, x.lo>>
                   ELSE <<2 * x.hi + x.lo \div 2^27, (x.lo % 2^27) * 2>>
             k  == IF ge THEN 55 ELSE 56
             q1 == DivBits(<<0, r0[1], r0[2]>>, y.hi, y.lo, 28)
             q2 == DivBits(<<0, q1[2], q1[3]>>, y.hi, y.lo, 28)
         IN  Pack(x.neg # y.neg, q1[1], Jam(q2[1], q2[2] # 0 \/ q2[3] # 0),
                  x.e - y.e - k)

\* the float a decimal literal p/q denotes
Lit(p, q) == FDiv(FromInt(p), FromInt(q))

FLe(x, y) ==
    IF IsZero(x) THEN IsZero(y) \/ ~y.neg
    ELSE IF IsZero(y) THEN x.neg
    ELSE IF x.neg # y.neg THEN x.neg
    ELSE IF x.neg THEN MagnitudeGe(x, y)
    ELSE MagnitudeGe(y, x)

\* x rounded to a multiple of 1/8 with the sticky bit set if inexact, times 8,
\* for |x| below 2^25
Eighths(x) == IF x.e < -108 THEN 1 ELSE ShrJam(Whi(x), Wlo(x), -x.e)[2]

\* int(x): truncation toward zero, for |x| below 2^25
Trunc(x) == IF x.neg THEN -(Eighths(x) \div 8) ELSE Eighths(x) \div 8

\* round(x): to the nearest integer, ties to the even one, for |x| below 2^25
RoundInt(x) ==
    LET t   == Eighths(x)
        q   == t \div 8
        up  == t % 8 > 4 \/ (t % 8 = 4 /\ q % 2 = 1)
        mag == IF up THEN q + 1 ELSE q
    IN  IF x.neg THEN -mag ELSE mag

One == FromInt(1)

Two == FromInt(2)

-----------------------------------------------------------------------------
(* Collaborators of FingerReach whose code is outside the translated       *)
(* files: utils.scale / utils.unscale / utils.compute_distance, the        *)
(* FingerSpaces bounds and the SimFinger driver.  Vectors are modelled by  *)
(* one joint component: numpy's arithmetic on them is elementwise.         *)

None == [none |-> TRUE]

\* FingerSpaces: the bounds of the unscaled action space
ActionLow == Lit(-1, 2)

ActionHigh == Lit(3, 2)

\* FingerSpaces: the bounds of the unscaled observation space, per key
ObservationBounds ==
    [joint_positions        |-> <<FromInt(-2), FromInt(2)>>,
     joint_velocities       |-> <<FromInt(-4), FromInt(4)>>,
     goal_position          |-> <<FromInt(-4), FromInt(4)>>,
     action_joint_positions |-> <<FromInt(-2), FromInt(2)>>]

\* utils.unscale: [-1, 1] to [low, high]
unscale(y, low, high) ==
    FAdd(low, FMul(FDiv(FAdd(y, One), Two), FSub(high, low)))

\* utils.scale: [low, high] to [-1, 1]
scale(x, low, high) ==
    FSub(FDiv(FMul(Two, FSub(x, low)), FSub(high, low)), One)

\* SimFinger.forward_kinematics: joint position to end-effector position
forward_kinematics(q) == FAdd(FMul(Two, q), One)

\* utils.compute_distance: Euclidean distance
compute_distance(a, b) == FAbs(FSub(a, b))

\* numpy.linalg.norm
norm(v) == FAbs(v)

\* the joint states the driver can report after a physical tick
DriverObservations ==
    {[position |-> FromInt(0), velocity |-> FromInt(0)],
     [position |-> FromInt(1), velocity |-> FromInt(2)]}

\* SimFinger.sample_random_joint_positions_for_reaching
TargetJointConfigs == {FromInt(0), FromInt(1)}

\* SimFinger.reset_finger: the pose it moves to, returned as the applied action
ResetPose == FromInt(0)

\* the scaled actions an agent passes to step
ScaledActions == {FromInt(1), FromInt(0)}

-----------------------------------------------------------------------------
(* Bounds of the model and the constructor arguments it explores.          *)

MaxEpisodes == 6

MaxSteps == 2

\* the most driver calls of step and reset that raise to the caller in one run
MaxFaults == 1

\* smoothing_params of a test run: the "is_test" key is present
TestParams == {[is_test |-> TRUE, final_alpha |-> Lit(9, 10)]}

RampParams(episodes, starts, stops) ==
    [num_episodes : episodes, start_after : starts, stop_after : stops,
     final_alpha : {Lit(9, 10)}]

\* datetime.datetime.now() at construction: the hour and minute it reads
Clock(hour, minute) == [hour |-> hour, minute |-> minute]

\* the constructor arguments explored together with step
StepArgs ==
    [control_rate_s : {Lit(4, 1000), Lit(8, 1000), Lit(1, 1000000)},
     smoothing_params : TestParams \cup
         RampParams({10}, {FromInt(0)}, {Lit(3, 10)}),
     velocity_cost_factor : {FromInt(0), Lit(1, 10)},
     synchronize : {FALSE},
     now : {Clock(10, 30)}]

\* the constructor arguments explored for construction and the ramp
RampArgs ==
    [control_rate_s : {Lit(4, 1000), Lit(2, 100), Lit(1, 100),
                       Lit(40005, 10000000), Lit(4002, 1000000),
                       Lit(1, 1000000)},
     smoothing_params : TestParams \cup
         RampParams({-10, 0, 1, 10},
                    {FromInt(0), Lit(2, 10), Lit(4, 10)},
                    {Lit(2, 10), Lit(3, 10), FromInt(1)})
         \cup {[num_episodes |-> 10, start_after |-> FromInt(0),
                 stop_after |-> Lit(6, 10), final_alpha |-> Lit(99, 100)]},
     velocity_cost_factor : {FromInt(0)},
     synchronize : {FALSE},
     now : {Clock(10, 30)}]

\* the constructor arguments explored with a driver that can raise
FaultyArgs ==
    [control_rate_s : {Lit(4, 1000), Lit(8, 1000)},
     smoothing_params : RampParams({10}, {FromInt(0)}, {Lit(3, 10)}),
     velocity_cost_factor : {FromInt(0)},
     synchronize : {FALSE},
     now : {Clock(10, 30)}]

\* the constructor arguments explored for the synchronized episode starts
SyncArgs ==
    [control_rate_s : {Lit(4, 1000)},
     smoothing_params : TestParams \cup
         RampParams({10}, {FromInt(0)}, {Lit(3, 10)}),
     velocity_cost_factor : {FromInt(0)},
     synchronize : BOOLEAN,
     now : {Clock(10, 30), Clock(10, 58), Clock(10, 59), Clock(23, 59)}]

-----------------------------------------------------------------------------
VARIABLES
    args,                     \* the arguments given to the constructor
    phase,                    \* "new", "built" or "failed" (constructor raised)
    steps_per_control,
    smoothing_start_episode,
    smoothing_stop_episode,   \* [inf |-> TRUE] is math.inf
    smoothing_alpha,
    smoothing_increase_step,
    smoothed_action,
    episode_count,
    velocity_cost_factor,
    goal,
    next_start_time,          \* None, or Time(seconds since the day began)
    fault_budget,             \* driver exceptions that can still reach a caller
    finger,                   \* the driver: its observation and commanded action
    calls,                    \* driver and logger calls of the last operation
    result,                   \* what the last operation returned or raised
    steps_done                \* steps taken in the current episode

vars == <<args, phase, steps_per_control, smoothing_start_episode,
          smoothing_stop_episode, smoothing_alpha, smoothing_increase_step,
          smoothed_action, episode_count, velocity_cost_factor, goal,
          next_start_time, fault_budget, finger, calls, result, steps_done>>

fields == <<steps_per_control, smoothing_start_episode,
            smoothing_stop_episode, smoothing_increase_step,
            velocity_cost_factor>>

simulation_rate_s == Lit(4, 1000)

observations_keys ==
    <<"joint_positions", "joint_velocities", "goal_position",
      "action_joint_positions">>

Inf == [inf |-> TRUE]

Finite(n) == [inf |-> FALSE, n |-> n]

\* a < b for an int a and b an int or math.inf
Below(a, b) == b.inf \/ a < b.n

\* FingerReach.update_smoothing: the coefficient after the update
update_smoothing(alpha, start, stop, increase, count) ==
    IF start <= count /\ Below(count, stop)
    THEN FAdd(alpha, increase)
    ELSE alpha

\* _get_observation reporting the joint positions in place of the action
get_observation_reporting_position(f, g, action) ==
    [joint_positions        |-> f.position,
     joint_velocities       |-> f.velocity,
     goal_position          |-> g,
     action_joint_positions |-> f.position]

\* FingerReach._get_observation: the observation, keyed as observations_keys
get_observation(f, g, action) ==
    [joint_positions        |-> f.position,
     joint_velocities       |-> f.velocity,
     goal_position          |-> g,
     action_joint_positions |-> action]

\* utils.scale applied to an observation
scale_observation(obs) ==
    [k \in DOMAIN obs |->
        scale(obs[k], ObservationBounds[k][1], ObservationBounds[k][2])]

\* _compute_reward signalling done when the end effector is at the goal
compute_reward_done_at_goal(observation, g, cost_factor, n) ==
    LET end_effector_positions == forward_kinematics(observation.joint_positions)
        velocity         == norm(observation.joint_velocities)
        distance_to_goal == compute_distance(end_effector_positions, g)
        reward == FSub(FNeg(distance_to_goal), FMul(cost_factor, velocity))
    IN  <<FMul(reward, FromInt(n)), distance_to_goal = Zero>>

\* _compute_reward returning the reward of line 185 without the factor of
\* line 188
compute_reward_unscaled(observation, g, cost_factor, n) ==
    LET end_effector_positions == forward_kinematics(observation.joint_positions)
        velocity         == norm(observation.joint_velocities)
        distance_to_goal == compute_distance(end_effector_positions, g)
        reward == FSub(FNeg(distance_to_goal), FMul(cost_factor, velocity))
    IN  <<reward, FALSE>>

\* FingerReach._compute_reward: <<reward, done>>
compute_reward(observation, g, cost_factor, n) ==
    LET end_effector_positions == forward_kinematics(observation.joint_positions)
        velocity         == norm(observation.joint_velocities)
        distance_to_goal == compute_distance(end_effector_positions, g)
        reward == FSub(FNeg(distance_to_goal), FMul(cost_factor, velocity))
    IN  <<FMul(reward, FromInt(n)), FALSE>>

\* FingerReach.__init__, line 74
steps_per_control_for(control_rate_s) ==
    RoundInt(FDiv(control_rate_s, simulation_rate_s))

tolerance == Lit(1, 1000000)

\* the check of lines 75-76 written as assert(condition, message): a non-empty
\* tuple, which is always true
rate_matches_asserting_tuple(control_rate_s, n) == TRUE

\* FingerReach.__init__, lines 75-76: the condition asserted
rate_matches(control_rate_s, n) ==
    FLe(FAbs(FSub(control_rate_s, FMul(FromInt(n), simulation_rate_s))),
        tolerance)

Raised(call, exception) == [call |-> call, raised |-> exception]

Init ==
    /\ args \in StepArgs
    /\ phase = "new"
    /\ steps_per_control = 0
    /\ smoothing_start_episode = 0
    /\ smoothing_stop_episode = Inf
    /\ smoothing_alpha = Zero
    /\ smoothing_increase_step = Zero
    /\ smoothed_action = None
    /\ episode_count = 0
    /\ velocity_cost_factor = Zero
    /\ goal = None
    /\ next_start_time = None
    /\ fault_budget = 0
    /\ finger = [position |-> ResetPose, velocity |-> Zero, action |-> None]
    /\ calls = <<>>
    /\ result = [call |-> "none", raised |-> "none"]
    /\ steps_done = 0

\* _get_observation logging although log_observation is false
observation_calls_always_logging(log_observation) ==
    <<[op |-> "get_observation", raises |-> FALSE],
      [op |-> "append", raises |-> FALSE]>>

\* FingerReach._get_observation, lines 202-222: the driver and logger calls
observation_calls(log_observation) ==
    <<[op |-> "get_observation", raises |-> FALSE]>> \o
    (IF log_observation THEN <<[op |-> "append", raises |-> FALSE]>> ELSE <<>>)

\* a datetime.datetime of the day of construction
Time(seconds) == [seconds |-> seconds]

\* FingerReach.__init__, lines 151-156: the first start time, or the exception
\* datetime.datetime raises for a minute outside 0..59
first_start_time(synchronize, now) ==
    IF ~synchronize THEN [raised |-> "none", time |-> None]
    ELSE IF now.minute + 1 > 59 THEN [raised |-> "ValueError"]
    ELSE [raised |-> "none",
          time |-> Time(now.hour * 3600 + (now.minute + 1) * 60)]

\* datetime.timedelta(seconds=4), line 291
start_time_period_s == 4

\* what the freeze of lines 284-286 can do: succeed, or raise in either call
FreezeOutcomes == {"none", "set_action", "step_robot"}

\* the try of lines 283-288 without its except clause
freeze_exception_unhandled(outcome) ==
    IF outcome = "none" THEN "none" ELSE "DriverError"

\* FingerReach.reset, lines 283-288: the exception that leaves the try statement
freeze_exception(outcome) == "none"

\* FingerReach.reset, lines 282-290: the calls made before the smoothing update
freeze(f, start_time, outcome) ==
    IF start_time = None THEN <<>>
    ELSE <<[op |-> "set_action", raises |-> outcome = "set_action",
            freeze |-> TRUE, action |-> f.position, mode |-> "position"]>> \o
         (IF outcome = "set_action" THEN <<>>
          ELSE <<[op |-> "step_robot", raises |-> outcome = "step_robot",
                  freeze |-> TRUE, wait |-> TRUE]>>) \o
         <<[op |-> "sleep_until", raises |-> FALSE, time |-> start_time]>>

\* the driver call of reset that raises, if any
ResetFaults ==
    {"none", "reset_finger", "sample_random_joint_positions_for_reaching",
     "forward_kinematics", "reset_goal_markers"}

\* lines 297-307 going on after a driver call raised
reset_calls_continuing(g, fault) ==
    LET all == <<[op |-> "reset_finger", raises |-> FALSE],
                 [op |-> "sample_random_joint_positions_for_reaching",
                  raises |-> FALSE],
                 [op |-> "forward_kinematics", raises |-> FALSE],
                 [op |-> "new_episode", raises |-> FALSE, goal |-> g],
                 [op |-> "reset_goal_markers", raises |-> FALSE, goal |-> g]>>
               \o observation_calls(FALSE)
    IN  [i \in 1..Len(all) |-> IF all[i].op = fault
                               THEN [all[i] EXCEPT !.raises = TRUE] ELSE all[i]]

\* FingerReach.reset, lines 297-307: the calls made up to the one that raises
reset_calls(g, fault) ==
    LET all == <<[op |-> "reset_finger", raises |-> FALSE],
                 [op |-> "sample_random_joint_positions_for_reaching",
                  raises |-> FALSE],
                 [op |-> "forward_kinematics", raises |-> FALSE],
                 [op |-> "new_episode", raises |-> FALSE, goal |-> g],
                 [op |-> "reset_goal_markers", raises |-> FALSE, goal |-> g]>>
               \o observation_calls(FALSE)
        n == IF fault = "none" THEN Len(all)
             ELSE CHOOSE i \in 1..Len(all) : all[i].op = fault
    IN  [i \in 1..n |-> IF all[i].op = fault
                        THEN [all[i] EXCEPT !.raises = TRUE] ELSE all[i]]

\* FingerReach.reset, called by `call` with the given smoothing state and
\* start time
ResetFrom(call, alpha, start, stop, increase, count, start_time) ==
    \E target_joint_config \in TargetJointConfigs,
       fault \in IF fault_budget > 0 THEN ResetFaults ELSE {"none"},
       outcome \in IF start_time = None THEN {"none"} ELSE FreezeOutcomes :
        LET action == ResetPose
            frozen == IF start_time = None \/ outcome = "set_action" THEN finger
                      ELSE [finger EXCEPT !.action = finger.position]
            f == [position |-> ResetPose, velocity |-> Zero, action |-> action]
            g == forward_kinematics(target_joint_config)
            made == reset_calls(g, fault)
            completed(op) == \E i \in 1..Len(made) :
                                 made[i].op = op /\ ~made[i].raises
        IN  IF freeze_exception(outcome) # "none"
            THEN /\ calls' = SelectSeq(freeze(finger, start_time, outcome),
                                       LAMBDA c : c.op # "sleep_until")
                 /\ result' = Raised(call, freeze_exception(outcome))
                 /\ finger' = frozen
                 /\ UNCHANGED <<next_start_time, fault_budget, smoothing_alpha,
                                episode_count, smoothed_action, goal,
                                steps_done>>
            ELSE /\ next_start_time' = IF start_time = None THEN None
                                       ELSE Time(start_time.seconds +
                                                 start_time_period_s)
                 /\ fault_budget' = IF fault = "none" THEN fault_budget
                                    ELSE fault_budget - 1
                 /\ smoothing_alpha' =
                        update_smoothing(alpha, start, stop, increase, count)
                 /\ episode_count' = count + 1
                 /\ smoothed_action' = None
                 /\ finger' = IF completed("reset_finger") THEN f ELSE frozen
                 /\ goal' = IF completed("forward_kinematics") THEN g ELSE goal
                 /\ calls' = freeze(finger, start_time, outcome) \o made
                 /\ result' =
                        IF fault = "none"
                        THEN [call |-> "reset", raised |-> "none",
                              observation |->
                                  scale_observation(get_observation(f, g, action))]
                        ELSE Raised(call, "DriverError")
                 /\ steps_done' = 0

ConstructionFails(exception) ==
    /\ phase' = "failed"
    /\ result' = Raised("__init__", exception)
    /\ UNCHANGED <<args, fields, smoothing_alpha, smoothed_action,
                   episode_count, goal, next_start_time, fault_budget, finger,
                   calls, steps_done>>

\* lines 78-95 with the coefficient initialised to 0 on both branches
smoothing_schedule_from_zero(smoothing_params) ==
    IF "is_test" \in DOMAIN smoothing_params
    THEN [raised |-> "none", start |-> 0, alpha |-> Zero,
          increase |-> Zero, stop |-> Inf]
    ELSE LET stop  == Trunc(FMul(FromInt(smoothing_params.num_episodes),
                                 smoothing_params.stop_after))
             start == Trunc(FMul(FromInt(smoothing_params.num_episodes),
                                 smoothing_params.start_after))
             num_smoothing_increase_steps == stop - start
         IN  IF num_smoothing_increase_steps = 0
             THEN [raised |-> "ZeroDivisionError"]
             ELSE [raised |-> "none", start |-> start, alpha |-> Zero,
                   increase |-> FDiv(smoothing_params.final_alpha,
                                     FromInt(num_smoothing_increase_steps)),
                   stop |-> Finite(stop)]

\* FingerReach.__init__, lines 78-95: the smoothing schedule, or the exception
\* the division of line 94 raises
smoothing_schedule(smoothing_params) ==
    IF "is_test" \in DOMAIN smoothing_params
    THEN [raised |-> "none", start |-> 0,
          alpha |-> smoothing_params.final_alpha,
          increase |-> Zero, stop |-> Inf]
    ELSE LET stop  == Trunc(FMul(FromInt(smoothing_params.num_episodes),
                                 smoothing_params.stop_after))
             start == Trunc(FMul(FromInt(smoothing_params.num_episodes),
                                 smoothing_params.start_after))
             num_smoothing_increase_steps == stop - start
         IN  IF num_smoothing_increase_steps = 0
             THEN [raised |-> "ZeroDivisionError"]
             ELSE [raised |-> "none", start |-> start, alpha |-> Zero,
                   increase |-> FDiv(smoothing_params.final_alpha,
                                     FromInt(num_smoothing_increase_steps)),
                   stop |-> Finite(stop)]

\* FingerReach.__init__
Construct ==
    /\ phase = "new"
    /\ LET n == steps_per_control_for(args.control_rate_s)
           schedule == smoothing_schedule(args.smoothing_params)
           start_time == first_start_time(args.synchronize, args.now)
       IN  IF ~rate_matches(args.control_rate_s, n)
           THEN ConstructionFails("AssertionError")
           ELSE IF schedule.raised # "none"
           THEN ConstructionFails(schedule.raised)
           ELSE IF start_time.raised # "none"
           THEN ConstructionFails(start_time.raised)
           ELSE /\ steps_per_control' = n
                /\ smoothing_start_episode' = schedule.start
                /\ smoothing_stop_episode' = schedule.stop
                /\ smoothing_increase_step' = schedule.increase
                /\ velocity_cost_factor' = args.velocity_cost_factor
                /\ ResetFrom("__init__", schedule.alpha, schedule.start,
                             schedule.stop, schedule.increase, 0,
                             start_time.time)
                /\ phase' = IF result'.raised = "none" THEN "built"
                            ELSE "failed"
                /\ UNCHANGED args

\* FingerReach.reset
Reset ==
    /\ phase = "built"
    /\ episode_count < MaxEpisodes
    /\ ResetFrom("reset", smoothing_alpha, smoothing_start_episode,
                 smoothing_stop_episode, smoothing_increase_step,
                 episode_count, next_start_time)
    /\ UNCHANGED <<args, phase, fields>>

\* lines 254-255 with the two weights exchanged
smooth_weights_exchanged(alpha, previous, unscaled_action) ==
    LET start == IF previous = None THEN unscaled_action ELSE previous
    IN  FAdd(FMul(FSub(One, alpha), start), FMul(alpha, unscaled_action))

\* FingerReach.step, lines 249-255: the smoothed action
smooth(alpha, previous, unscaled_action) ==
    LET start == IF previous = None THEN unscaled_action ELSE previous
    IN  FAdd(FMul(alpha, start), FMul(FSub(One, alpha), unscaled_action))

\* what a driver call inside the control loop can do instead of completing
DriverFaults == {[raises |-> "set_action"], [raises |-> "step_robot"]}

\* what the driver does in the n iterations of one control loop: what each
\* tick reports, up to a call that raises (written in all later places too,
\* which the loop never reads)
DriverScripts(n, faulty) ==
    {t \in [1..n -> DriverObservations \cup
                        (IF faulty THEN DriverFaults ELSE {})] :
        \A i \in 2..n : t[i - 1] \in DriverFaults => t[i] = t[i - 1]}

\* the control loop without the test of line 265: every iteration observes
RECURSIVE control_loop_observing_each_tick(_, _, _, _, _, _)
control_loop_observing_each_tick(i, n, action, g, ticks, st) ==
    IF i > n \/ st.raised THEN st
    ELSE LET first == st.observation = None
             f == [position |-> ticks[i].position,
                   velocity |-> ticks[i].velocity,
                   action   |-> action]
             set_action == [op |-> "set_action", raises |-> FALSE,
                            action |-> action, mode |-> "position"]
             step_robot == [op |-> "step_robot", raises |-> FALSE,
                            wait |-> first]
         IN  control_loop_observing_each_tick(i + 1, n, action, g, ticks,
                 IF ticks[i] = [raises |-> "set_action"]
                 THEN [st EXCEPT !.raised = TRUE,
                          !.calls = @ \o <<[set_action EXCEPT !.raises = TRUE]>>]
                 ELSE IF ticks[i] = [raises |-> "step_robot"]
                 THEN [st EXCEPT !.raised = TRUE,
                          !.finger.action = action,
                          !.calls = @ \o <<set_action,
                                          [step_robot EXCEPT !.raises = TRUE]>>]
                 ELSE [finger |-> f,
                       raised |-> FALSE,
                       observation |-> get_observation(f, g, action),
                       calls |-> st.calls \o
                           <<set_action,
                             step_robot @@ [reported |-> ticks[i]]>> \o
                           observation_calls(TRUE)])

\* FingerReach.step, lines 259-266: iterations i..n of the control loop, where
\* ticks[i] is the joint state the driver reports after the i-th physical tick,
\* or the call of the i-th iteration that raises
RECURSIVE control_loop(_, _, _, _, _, _)
control_loop(i, n, action, g, ticks, st) ==
    IF i > n \/ st.raised THEN st
    ELSE LET first == st.observation = None
             f == [position |-> ticks[i].position,
                   velocity |-> ticks[i].velocity,
                   action   |-> action]
             set_action == [op |-> "set_action", raises |-> FALSE,
                            action |-> action, mode |-> "position"]
             step_robot == [op |-> "step_robot", raises |-> FALSE,
                            wait |-> first]
         IN  control_loop(i + 1, n, action, g, ticks,
                 IF ticks[i] = [raises |-> "set_action"]
                 THEN [st EXCEPT !.raised = TRUE,
                          !.calls = @ \o <<[set_action EXCEPT !.raises = TRUE]>>]
                 ELSE IF ticks[i] = [raises |-> "step_robot"]
                 THEN [st EXCEPT !.raised = TRUE,
                          !.finger.action = action,
                          !.calls = @ \o <<set_action,
                                          [step_robot EXCEPT !.raises = TRUE]>>]
                 ELSE [finger |-> f,
                       raised |-> FALSE,
                       observation |-> IF first THEN get_observation(f, g, action)
                                       ELSE st.observation,
                       calls |-> st.calls \o
                           <<set_action,
                             step_robot @@ [reported |-> ticks[i]]>> \o
                           (IF first THEN observation_calls(TRUE) ELSE <<>>)])

\* lines 229-271 with the smoothing coefficient advanced by every step
Step_updating_smoothing ==
    /\ phase = "built"
    /\ steps_done < MaxSteps
    /\ \E action \in ScaledActions :
       \E unscaled_action \in {unscale(action, ActionLow, ActionHigh)} :
       \E smoothed \in {smooth(smoothing_alpha, smoothed_action, unscaled_action)} :
            /\ smoothed_action' = smoothed
            /\ \E ticks \in DriverScripts(steps_per_control, fault_budget > 0) :
               \E st \in {control_loop(1, steps_per_control, smoothed, goal, ticks,
                              [finger |-> finger, raised |-> FALSE,
                               observation |-> None, calls |-> <<>>])} :
                    /\ finger' = st.finger
                    /\ fault_budget' = IF st.raised THEN fault_budget - 1
                                       ELSE fault_budget
                    /\ calls' = <<[op |-> "unscale", raises |-> FALSE,
                                   action |-> action,
                                   unscaled |-> unscaled_action]>> \o st.calls
                    /\ result' =
                        IF st.raised
                        THEN Raised("step", "DriverError")
                        ELSE IF st.observation = None
                        THEN Raised("step", "TypeError")
                        ELSE LET rd == compute_reward(st.observation, goal,
                                           velocity_cost_factor, steps_per_control)
                             IN  [call |-> "step", raised |-> "none",
                                  observation |-> scale_observation(st.observation),
                                  reward |-> rd[1], done |-> rd[2],
                                  is_success |-> IF rd[2] THEN One ELSE Zero]
    /\ steps_done' = steps_done + 1
    /\ smoothing_alpha' = update_smoothing(smoothing_alpha, smoothing_start_episode,
                                           smoothing_stop_episode,
                                           smoothing_increase_step, episode_count)
    /\ UNCHANGED <<args, phase, fields, episode_count, goal, next_start_time>>

\* FingerReach.step (values used more than once are bound with \E over a
\* one-element set, so that each is computed once)
Step ==
    /\ phase = "built"
    /\ steps_done < MaxSteps
    /\ \E action \in ScaledActions :
       \E unscaled_action \in {unscale(action, ActionLow, ActionHigh)} :
       \E smoothed \in {smooth(smoothing_alpha, smoothed_action, unscaled_action)} :
            /\ smoothed_action' = smoothed
            /\ \E ticks \in DriverScripts(steps_per_control, fault_budget > 0) :
               \E st \in {control_loop(1, steps_per_control, smoothed, goal, ticks,
                              [finger |-> finger, raised |-> FALSE,
                               observation |-> None, calls |-> <<>>])} :
                    /\ finger' = st.finger
                    /\ fault_budget' = IF st.raised THEN fault_budget - 1
                                       ELSE fault_budget
                    /\ calls' = <<[op |-> "unscale", raises |-> FALSE,
                                   action |-> action,
                                   unscaled |-> unscaled_action]>> \o st.calls
                    /\ result' =
                        IF st.raised
                        THEN Raised("step", "DriverError")
                        ELSE IF st.observation = None
                        THEN Raised("step", "TypeError")
                        ELSE LET rd == compute_reward(st.observation, goal,
                                           velocity_cost_factor, steps_per_control)
                             IN  [call |-> "step", raised |-> "none",
                                  observation |-> scale_observation(st.observation),
                                  reward |-> rd[1], done |-> rd[2],
                                  is_success |-> IF rd[2] THEN One ELSE Zero]
    /\ steps_done' = steps_done + 1
    /\ UNCHANGED <<args, phase, fields, smoothing_alpha, episode_count, goal,
                   next_start_time>>

Next == Construct \/ Reset \/ Step

Spec == Init /\ [][Next]_vars

\* the state before construction, for arguments from the given set and a
\* driver that raises at most `budget` times
InitWith(arguments, budget) ==
    /\ args \in arguments
    /\ phase = "new"
    /\ steps_per_control = 0
    /\ smoothing_start_episode = 0
    /\ smoothing_stop_episode = Inf
    /\ smoothing_alpha = Zero
    /\ smoothing_increase_step = Zero
    /\ smoothed_action = None
    /\ episode_count = 0
    /\ velocity_cost_factor = Zero
    /\ goal = None
    /\ next_start_time = None
    /\ fault_budget = budget
    /\ finger = [position |-> ResetPose, velocity |-> Zero, action |-> None]
    /\ calls = <<>>
    /\ result = [call |-> "none", raised |-> "none"]
    /\ steps_done = 0

\* the constructor and reset alone, over the wider set of constructor arguments
InitRamp == InitWith(RampArgs, 0)

NextRamp == Construct \/ Reset

SpecRamp == InitRamp /\ [][NextRamp]_vars

\* constructor, reset and step with a driver whose calls can raise
InitFaulty == InitWith(FaultyArgs, MaxFaults)

SpecFaulty == InitFaulty /\ [][Next]_vars

\* constructor and reset with and without synchronized episode starts, with a
\* driver whose calls can raise
InitSync == InitWith(SyncArgs, MaxFaults)

SpecSync == InitSync /\ [][NextRamp]_vars

-----------------------------------------------------------------------------
(* Properties of the smoothing schedule and of the control rate, checked   *)
(* under SpecRamp.                                                         *)

is_test == "is_test" \in DOMAIN args.smoothing_params

\* the episode in progress, numbered from 0 by the reset that started it
current_episode == episode_count - 1

\* int(num_episodes * fraction)
episode_at(fraction) ==
    Trunc(FMul(FromInt(args.smoothing_params.num_episodes), fraction))

\* num_episodes > 0 and 0 <= start_after < stop_after <= 1
valid_ramp ==
    /\ ~is_test
    /\ args.smoothing_params.num_episodes > 0
    /\ FLe(Zero, args.smoothing_params.start_after)
    /\ FLe(args.smoothing_params.start_after, args.smoothing_params.stop_after)
    /\ args.smoothing_params.start_after # args.smoothing_params.stop_after
    /\ FLe(args.smoothing_params.stop_after, One)

\* C1: for every valid ramp configuration construction succeeds, the
\* coefficient in force is 0 in every episode numbered below S and exactly
\* final_alpha in every episode numbered T or above, where
\* S = int(num_episodes*start_after) and T = int(num_episodes*stop_after)
\* (between S and T the claim adds that it does not decrease).
C1_RampReachesFinalAlpha ==
    valid_ramp =>
        /\ phase # "failed"
        /\ phase = "built" =>
            /\ current_episode < episode_at(args.smoothing_params.start_after)
                => smoothing_alpha = Zero
            /\ current_episode >= episode_at(args.smoothing_params.stop_after)
                => smoothing_alpha = args.smoothing_params.final_alpha

\* C2: construction fails for every non-test configuration with
\* stop_after <= start_after and for every one with num_episodes <= 0
C2_InvalidRampFailsConstruction ==
    (/\ ~is_test
     /\ \/ FLe(args.smoothing_params.stop_after,
               args.smoothing_params.start_after)
        \/ args.smoothing_params.num_episodes <= 0)
    => phase # "built"

\* C3: construction sets steps_per_control to N = round(control_rate_s/0.004)
\* and succeeds only if |control_rate_s - N*0.004| <= 1e-6; 0.004 gives N = 1,
\* 0.02 gives N = 5, and 0.01 fails at construction (its N is 2, 0.002 off).
C3_StepsPerControl ==
    /\ phase = "built" =>
        /\ steps_per_control =
               RoundInt(FDiv(args.control_rate_s, Lit(4, 1000)))
        /\ FLe(FAbs(FSub(args.control_rate_s,
                         FMul(FromInt(steps_per_control), Lit(4, 1000)))),
               Lit(1, 1000000))
        /\ args.control_rate_s = Lit(4, 1000) => steps_per_control = 1
        /\ args.control_rate_s = Lit(2, 100) => steps_per_control = 5
    /\ args.control_rate_s = Lit(1, 100) =>
        /\ phase # "built"
        /\ phase = "failed" => result = Raised("__init__", "AssertionError")

\* C3's case: an environment built with control_rate_s = 0.02
C3_Witness ==
    /\ phase = "built"
    /\ args.control_rate_s = Lit(2, 100)
    /\ steps_per_control = 5

-----------------------------------------------------------------------------
(* Properties of step, checked under Spec.                                 *)

\* the last operation was a step call that returned
returned_step == result.call = "step" /\ result.raised = "none"

\* the commands and the physical ticks the last operation gave the driver
commands == SelectSeq(calls, LAMBDA c : c.op = "set_action")

physical_ticks == SelectSeq(calls, LAMBDA c : c.op = "step_robot")

driver_calls == SelectSeq(calls, LAMBDA c : c.op \in {"set_action", "step_robot"})

observed_at == {i \in 1..Len(calls) : calls[i].op = "get_observation"}

\* C4: a step that returns issues exactly N commands, each followed by one
\* physical tick, alternating set_action and step_robot; every command carries
\* the same smoothed action in position mode; the observation is captured
\* once, right after the first tick and before the second command, and the
\* returned observation is that of the first tick whatever later ticks report.
C4_ControlLoop ==
    returned_step =>
        /\ Len(commands) = steps_per_control
        /\ Len(physical_ticks) = steps_per_control
        /\ \A i \in 1..Len(driver_calls) :
               driver_calls[i].op =
                   IF i % 2 = 1 THEN "set_action" ELSE "step_robot"
        /\ \A i \in 1..Len(commands) :
               /\ commands[i].action = smoothed_action
               /\ commands[i].mode = "position"
        /\ Cardinality(observed_at) = 1
        /\ \A i \in observed_at :
               /\ calls[i - 1].op = "step_robot"
               /\ Len(SelectSeq(SubSeq(calls, 1, i),
                               LAMBDA c : c.op = "step_robot")) = 1
               /\ Len(SelectSeq(SubSeq(calls, 1, i),
                               LAMBDA c : c.op = "set_action")) = 1
        /\ result.observation.joint_positions =
               scale(physical_ticks[1].reported.position,
                     ObservationBounds.joint_positions[1],
                     ObservationBounds.joint_positions[2])
        /\ result.observation.joint_velocities =
               scale(physical_ticks[1].reported.velocity,
                     ObservationBounds.joint_velocities[1],
                     ObservationBounds.joint_velocities[2])

\* C4's case: a returned step of two ticks whose second tick reports another
\* joint state than the first
C4_Witness ==
    /\ returned_step
    /\ steps_per_control = 2
    /\ Len(physical_ticks) = 2
    /\ physical_ticks[1].reported # physical_ticks[2].reported

\* C5: after every reset the smoothed-action buffer is absent, and the action
\* the first step of the episode commands equals the unscaled raw action of
\* that step, whatever the smoothing coefficient
C5_FirstStepCommandsRawAction ==
    /\ phase = "built" /\ result.call = "reset" => smoothed_action = None
    /\ returned_step /\ steps_done = 1 =>
           \A i \in 1..Len(commands) : commands[i].action = calls[1].unscaled

\* C6: a step other than the first of its episode leaves in the buffer
\* coefficient * previous buffer + (1 - coefficient) * unscaled raw action, the
\* coefficient being the one the episode's reset set (no step changes it), and
\* commands exactly that value
C6_SmoothingBlend ==
    [][steps_done' = steps_done + 1 =>
          /\ smoothing_alpha' = smoothing_alpha
          /\ steps_done >= 1 =>
              /\ smoothed_action' =
                     FAdd(FMul(smoothing_alpha, smoothed_action),
                          FMul(FSub(One, smoothing_alpha), calls'[1].unscaled))
              /\ \A i \in 1..Len(calls') :
                     calls'[i].op = "set_action"
                         => calls'[i].action = smoothed_action']_vars

\* C6's case: a second step has commanded a blend that differs from its raw
\* action
C6_Witness ==
    /\ returned_step
    /\ steps_done = 2
    /\ Len(commands) >= 1
    /\ commands[1].action # calls[1].unscaled

\* C7: with the is_test flag, the smoothing coefficient is final_alpha in
\* every state of the environment, after any number of resets and steps
C7_TestModePinsCoefficient ==
    is_test /\ phase = "built" =>
        smoothing_alpha = args.smoothing_params.final_alpha

\* C7's case: a test-mode environment in its third episode or later, after a
\* second step
C7_Witness ==
    /\ is_test
    /\ phase = "built"
    /\ episode_count >= 3
    /\ steps_done = 2
    /\ returned_step

\* the joint state the captured observation was taken from
first_reported == physical_ticks[1].reported

at_goal == forward_kinematics(first_reported.position) = goal

\* C9: every step that returns yields done = false and is_success = 0, also
\* when the end effector is exactly at the goal
C9_NeverDone ==
    returned_step =>
        /\ result.done = FALSE
        /\ result.is_success = Zero

\* C9's case: a step returned with the end effector exactly at the goal
C9_Witness ==
    /\ returned_step
    /\ at_goal
    /\ first_reported.velocity = Zero

\* C10: the reward of a step is N * (-distance(end effector of the observation
\* captured after the first tick, goal) - velocity_cost_factor * norm(its joint
\* velocities)); it is 0 at the goal with zero velocity and never positive
\* when velocity_cost_factor >= 0
C10_Reward ==
    returned_step =>
        LET distance == FAbs(FSub(forward_kinematics(first_reported.position),
                                  goal))
            velocity == FAbs(first_reported.velocity)
        IN  /\ result.reward =
                   FMul(FSub(FNeg(distance),
                             FMul(velocity_cost_factor, velocity)),
                        FromInt(steps_per_control))
            /\ at_goal /\ velocity = Zero => result.reward = Zero
            /\ FLe(Zero, velocity_cost_factor) => FLe(result.reward, Zero)

\* C10's case: a step of two ticks away from the goal, with a moving finger
\* and a velocity cost
C10_Witness ==
    /\ returned_step
    /\ steps_per_control = 2
    /\ ~at_goal
    /\ first_reported.velocity # Zero
    /\ velocity_cost_factor # Zero
    /\ result.reward # Zero

-----------------------------------------------------------------------------
(* Properties of the synchronized episode starts and of driver errors,     *)
(* checked under SpecSync and SpecFaulty.                                  *)

\* the calls of the last operation that raised
raising == {i \in 1..Len(calls) : calls[i].raises}

\* the calls of the synchronized freeze among them
freeze_raising == {i \in raising : "freeze" \in DOMAIN calls[i]}

\* the operations the last reset called
called == {calls[i].op : i \in 1..Len(calls)}

\* C11: when the freeze command or the freeze tick of a synchronized reset
\* raises, the same reset still sleeps until the scheduled start time, updates
\* the smoothing coefficient, counts the episode, resets the driver and samples
\* a goal, and returns an observation unless a later driver call raises
C11_FreezeErrorSwallowed ==
    [][(phase = "built" /\ freeze_raising' # {}) =>
          /\ \E i \in 1..Len(calls') :
                 /\ \A j \in freeze_raising' : j < i
                 /\ calls'[i] = [op |-> "sleep_until", raises |-> FALSE,
                                 time |-> next_start_time]
          /\ episode_count' = episode_count + 1
          /\ smoothing_alpha' =
                 IF smoothing_start_episode <= episode_count
                    /\ Below(episode_count, smoothing_stop_episode)
                 THEN FAdd(smoothing_alpha, smoothing_increase_step)
                 ELSE smoothing_alpha
          /\ "reset_finger" \in called'
          /\ raising' = freeze_raising' =>
                 /\ result'.call = "reset"
                 /\ result'.raised = "none"
                 /\ "observation" \in DOMAIN result'
                 /\ {"sample_random_joint_positions_for_reaching",
                     "forward_kinematics", "get_observation"} \subseteq called'
                 /\ goal' # None]_vars

\* C11's case: a reset after the constructor's whose freeze raised and which
\* returned an observation
C11_Witness ==
    /\ phase = "built"
    /\ episode_count >= 2
    /\ freeze_raising # {}
    /\ result.call = "reset"
    /\ result.raised = "none"

\* the calls outside the freeze that raised
propagating == raising \ freeze_raising

\* C12: a driver call that raises outside the synchronized freeze ends the
\* step or reset with the driver's exception: no result is returned, the call
\* is not retried and no further driver command follows it; and only such a
\* call ends an operation with the driver's exception
C12_DriverErrorsPropagate ==
    /\ propagating # {} =>
        /\ result.raised = "DriverError"
        /\ result.call \in {"step", "reset", "__init__"}
        /\ DOMAIN result = {"call", "raised"}
        /\ propagating = {Len(calls)}
    /\ result.raised = "DriverError" => propagating # {}

\* C12's case: a step whose second iteration raised in the driver
C12_Witness ==
    /\ result = Raised("step", "DriverError")
    /\ Len(calls) >= 6
    /\ calls[Len(calls)].raises

\* C13: a step leaves the goal, the smoothing coefficient, the episode count,
\* the smoothing start, stop and increment, steps_per_control and every other
\* field but the smoothed action as they were; the goal, the coefficient and
\* the episode count change only in a reset, which counts one episode
C13_StepFrame ==
    [][/\ steps_done' = steps_done + 1 =>
            /\ result'.call = "step"
            /\ <<goal, smoothing_alpha, episode_count>>' =
                    <<goal, smoothing_alpha, episode_count>>
            /\ <<fields, args, next_start_time>>' = <<fields, args, next_start_time>>
       /\ (phase = "built" /\ <<goal, smoothing_alpha, episode_count>>' #
                                    <<goal, smoothing_alpha, episode_count>>) =>
            /\ result'.call = "reset"
            /\ episode_count' = episode_count + 1]_vars

\* C13's case: a second step has returned in an episode of the ramp, after
\* resets that moved the coefficient
C13_Witness ==
    /\ returned_step
    /\ steps_done = 2
    /\ ~is_test
    /\ episode_count >= 2
    /\ ~IsZero(smoothing_alpha)
    /\ smoothed_action # None

\* final_alpha of the ramp lies in [0, 1]
final_alpha_in_unit_interval ==
    /\ ~is_test
    /\ FLe(Zero, args.smoothing_params.final_alpha)
    /\ FLe(args.smoothing_params.final_alpha, One)

\* C14: in every constructed environment whose final_alpha lies in [0, 1] the
\* smoothing coefficient lies in [0, final_alpha]: the ramp never overshoots
C14_CoefficientWithinFinalAlpha ==
    (phase = "built" /\ final_alpha_in_unit_interval) =>
        /\ FLe(Zero, smoothing_alpha)
        /\ FLe(smoothing_alpha, args.smoothing_params.final_alpha)

\* the operation that ends in the next state is a reset that returned
reset_completes == result'.call = "reset" /\ result'.raised = "none"

\* C15: construction makes one reset, so a constructed environment starts with
\* episode_count = 1 and a goal; from then on the goal is defined whenever a
\* step can be invoked, and episode_count grows by one with each reset that
\* completes, whose ramp condition is evaluated on the count before that, and
\* changes at no other time: it is the number of completed resets
C15_EpisodeCountCountsCompletedResets ==
    [][/\ (phase = "new" /\ phase' = "built") =>
            /\ reset_completes
            /\ episode_count' = 1
            /\ goal' # None
       /\ phase = "built" =>
            /\ goal # None
            /\ episode_count' = episode_count + (IF reset_completes THEN 1 ELSE 0)
            /\ reset_completes =>
                    smoothing_alpha' =
                        update_smoothing(smoothing_alpha, smoothing_start_episode,
                                         smoothing_stop_episode,
                                         smoothing_increase_step, episode_count)]_vars

\* C16: a constructed environment has steps_per_control >= 1, and each of its
\* steps that the driver lets through commands the driver and ticks it at
\* least once and has an observation when it computes the reward
C16_AtLeastOneTick ==
    /\ phase = "built" => steps_per_control >= 1
    /\ (phase = "built" /\ result.call = "step") =>
            /\ result.raised # "TypeError"
            /\ Len(commands) >= 1
            /\ Len(physical_ticks) >= 1

\* where the last operation called the given collaborator
calls_of(op) == {i \in 1..Len(calls) : calls[i].op = op}

\* C17: a reset that returns calls new_episode once, after the goal was derived
\* by forward kinematics and with that goal, and never append; a step that
\* returns calls append once, for the observation that follows the first
\* tick, whatever the number of ticks, and never new_episode
C17_LoggerCalls ==
    /\ (phase = "built" /\ result.call = "reset" /\ result.raised = "none") =>
            /\ Cardinality(calls_of("new_episode")) = 1
            /\ calls_of("append") = {}
            /\ \A i \in calls_of("new_episode") :
                    /\ calls[i].goal = goal
                    /\ \E j \in calls_of("forward_kinematics") : j < i
    /\ returned_step =>
            /\ calls_of("new_episode") = {}
            /\ Cardinality(calls_of("append")) = 1
            /\ \A i \in calls_of("append") :
                    /\ calls[i - 1].op = "get_observation"
                    /\ calls[i - 2] = physical_ticks[1]

\* C17's case: after a reset that returned, a step of two ticks has returned
C17_Witness ==
    /\ returned_step
    /\ episode_count >= 2
    /\ Len(physical_ticks) = 2
    /\ calls_of("append") # {}

\* utils.scale applied to one part of an observation
scaled_part(key, value) ==
    scale(value, ObservationBounds[key][1], ObservationBounds[key][2])

\* C18: the observation a step returns carries, scaled to the observation
\* space, the smoothed action that the step commanded to the driver; the one
\* a reset returns carries the action that reset_finger returned; and both
\* carry the goal that the reset of the episode sampled
C18_ObservationParts ==
    /\ returned_step =>
            /\ \A i \in 1..Len(commands) : commands[i].action = smoothed_action
            /\ result.observation.action_joint_positions =
                    scaled_part("action_joint_positions", smoothed_action)
            /\ result.observation.goal_position = scaled_part("goal_position", goal)
    /\ (phase = "built" /\ result.call = "reset" /\ result.raised = "none") =>
            /\ result.observation.action_joint_positions =
                    scaled_part("action_joint_positions", ResetPose)
            /\ result.observation.goal_position = scaled_part("goal_position", goal)
            /\ \A i \in calls_of("new_episode") : calls[i].goal = goal

\* C18's case: a step has returned an observation whose action part is a blend
\* that differs from the raw action and from the reported joint position
C18_Witness ==
    /\ returned_step
    /\ steps_done = 2
    /\ smoothed_action # calls[1].unscaled
    /\ smoothed_action # first_reported.position
    /\ result.observation.action_joint_positions #
            scaled_part("action_joint_positions", calls[1].unscaled)

\* C19: a reset in which a driver call after the smoothing update raises
\* leaves the smoothing coefficient and the episode count as they were before
\* the call
C19_FailedResetKeepsRamp ==
    [][(phase = "built" /\ result'.call = "reset" /\ result'.raised = "DriverError"
            /\ propagating' # {}) =>
          /\ smoothing_alpha' = smoothing_alpha
          /\ episode_count' = episode_count]_vars

\* the beginning of the minute after the wall-clock time of construction
next_minute == Time(args.now.hour * 3600 + (args.now.minute + 1) * 60)

\* C20: with synchronization, construction does not fail on the wall-clock
\* time, minute 59 included; the first reset sleeps until the beginning of the
\* next minute and every reset moves the start time on by 4 seconds; without
\* synchronization no reset freezes the robot or sleeps
C20_SynchronizedStart ==
    /\ args.synchronize =>
            /\ result # Raised("__init__", "ValueError")
            /\ phase = "built" =>
                    /\ next_start_time =
                            Time(next_minute.seconds +
                                 start_time_period_s * episode_count)
                    /\ \E i \in calls_of("sleep_until") :
                            calls[i].time =
                                Time(next_start_time.seconds - start_time_period_s)
    /\ ~args.synchronize =>
            /\ next_start_time = None
            /\ calls_of("sleep_until") = {}
            /\ \A i \in 1..Len(calls) : "freeze" \notin DOMAIN calls[i]

====
